---- MODULE Spec2Model ----
(***************************************************************************)
(* Model of the SoulboundToken contract (soulbound/src/soulbound.rs).      *)
(*                                                                         *)
(* The state is the contract's storage (tokenName, tokenSymbol,            *)
(* getNextTokenId, tokenOwner, userBalance, usedHash), the log entries of   *)
(* the most recent transaction, and a record of that transaction (endpoint, *)
(* caller, arguments, outcome).  Every endpoint call is one atomic step:   *)
(* a failed require! aborts the transaction, which leaves storage as it    *)
(* was and writes no log entry.                                            *)
(*                                                                         *)
(* getNextTokenId has no writer in the contract; its value is whatever the *)
(* deployment holds, so Init draws it from 0..MaxNextId.                   *)
(*                                                                         *)
(* The hash and the signature check are the execution environment's.  They *)
(* are modelled as ideal primitives: keccak256 has no collisions, and a    *)
(* signature verifies under a key for a message exactly when the holder of *)
(* that key produced it for that message.  Nobody holds the key of the     *)
(* zero address, and the zero address never calls.                         *)
(***************************************************************************)
EXTENDS Integers, Sequences, FiniteSets, TLC

\* ---------------------------------------------------------------- bounds
\* Largest value the identifier counter takes in a deployment.
MaxNextId == 2

\* ------------------------------------------------------------- universe
\* ManagedAddress::zero(), the burn wallet.
Zero == 0
\* The accounts that can send transactions and sign consents.
Users == {1, 2}
Addresses == {Zero} \cup Users
\* Token identifiers that calls name; those >= next_token_id are not minted.
TokenIds == 0 .. (MaxNextId - 1)
Names == {"Soulbound"}
Symbols == {"SBT"}

\* ------------------------------------------------------ byte encodings
\* The bytes of an address: every address has the same width (one cell here).
as_managed_buffer(addr) == <<addr>>

\* BigUint::to_bytes_be_buffer: minimal big-endian bytes, none for zero.
RECURSIVE get_buffer_from_biguint(_)
get_buffer_from_biguint(number) ==
    IF number = 0 THEN <<>>
    ELSE Append(get_buffer_from_biguint(number \div 256), number % 256)

\* Ideal hash: the digest determines the hashed buffer.
keccak256(buffer) == [keccak |-> buffer]

get_hash(active, passive, token_id) ==
    LET b1 == as_managed_buffer(active)
        b2 == b1 \o as_managed_buffer(passive)
        buffer_to_hash == b2 \o get_buffer_from_biguint(token_id)
    IN  keccak256(buffer_to_hash)

\* ---------------------------------------------------------- signatures
\* The signature the holder of `key` produces for `message`.
Sign(key, message) == [key |-> key, message |-> message]
\* Bytes that nobody produced as a signature.
Garbage == [key |-> <<>>, message |-> <<>>]

verify_secp256k1_legacy(key, message, signature) ==
    /\ signature.key = key
    /\ signature.message = message

\* The signatures a call between `caller` and `other` can carry: what either
\* of the two has signed for a transfer between them, in either direction and
\* for any token, or bytes that nobody signed.
SignaturesFor(caller, other) ==
    { Sign(as_managed_buffer(k), get_hash(d[1], d[2], i)) :
        k \in {caller, other} \cap Users,
        d \in {<<caller, other>>, <<other, caller>>}, i \in TokenIds }
    \cup {Garbage}

\* -------------------------------------------------------------- outcomes
Ok == "ok"
ErrUnequipOwner == "unequip: sender must be owner"
ErrNotMinted == "token not minted"
ErrGiveSelf == "give: cannot give from self"
ErrTakeSelf == "take: cannot take from self"
ErrInvalidSignature == "_safeCheckAgreement: invalid signature"
ErrAlreadyUsed == "_safeCheckAgreement: already used"

\* The error taxonomy, by the messages that signal each kind.
Unauthorized == {ErrUnequipOwner}
NotMinted == {ErrNotMinted}
SelfTransfer == {ErrGiveSelf, ErrTakeSelf}
InvalidSignature == {ErrInvalidSignature}
AgreementAlreadyUsed == {ErrAlreadyUsed}
Errors ==
    Unauthorized \cup NotMinted \cup SelfTransfer \cup InvalidSignature
        \cup AgreementAlreadyUsed

\* ----------------------------------------------------------------- state
VARIABLES
    token_name,     \* storage "tokenName"
    token_symbol,   \* storage "tokenSymbol"
    next_token_id,  \* storage "getNextTokenId"
    token_owner,    \* storage "tokenOwner": token id -> address
    balance,        \* storage "userBalance": address -> number
    used_hash,      \* storage "usedHash": token id -> bool
    events,         \* transfer events logged by the latest transaction
    last            \* the latest transaction: endpoint, caller, arguments, outcome

vars == <<token_name, token_symbol, next_token_id, token_owner, balance,
          used_hash, events, last>>

\* The storage a transaction works on, with the log it has written so far.
Storage ==
    [token_owner |-> token_owner, used_hash |-> used_hash, events |-> <<>>]

\* No transaction yet: the contract has just been deployed.
NoCall ==
    [op |-> "deploy", caller |-> Zero, other |-> Zero, token_id |-> 0,
     signature |-> Garbage, result |-> Ok, ret |-> 0]

\* The record of a transaction; ret is the value a give or take returns.
Call(op, caller, other, token_id, signature, result) ==
    [op |-> op, caller |-> caller, other |-> other, token_id |-> token_id,
     signature |-> signature, result |-> result,
     ret |-> IF result = Ok /\ op \in {"give", "take"} THEN token_id ELSE 0]

\* ------------------------------------------------------------- helpers
transfer_event(from, to, token_id) ==
    [from |-> from, to |-> to, token_id |-> token_id]

\* Variant of safe_check_agreement: the used flag is tested before the signature.
safe_check_agreement_used_first(st, active, passive, token_id, signature) ==
    LET hash == get_hash(active, passive, token_id)
    IN  IF st.used_hash[token_id]
        THEN ErrAlreadyUsed
        ELSE IF ~verify_secp256k1_legacy(as_managed_buffer(passive), hash, signature)
        THEN ErrInvalidSignature
        ELSE Ok

\* Variant of safe_check_agreement: the used flag is not consulted.
safe_check_agreement_signature_only(st, active, passive, token_id, signature) ==
    LET hash == get_hash(active, passive, token_id)
    IN  IF ~verify_secp256k1_legacy(as_managed_buffer(passive), hash, signature)
        THEN ErrInvalidSignature
        ELSE Ok

\* The outcome of the agreement check: Ok, or the message of the failing require!.
safe_check_agreement(st, active, passive, token_id, signature) ==
    LET hash == get_hash(active, passive, token_id)
    IN  IF ~verify_secp256k1_legacy(as_managed_buffer(passive), hash, signature)
        THEN ErrInvalidSignature
        ELSE IF st.used_hash[token_id]
        THEN ErrAlreadyUsed
        ELSE Ok

\* Variant of mint: the token is recorded under the giving side.
mint_to_sender(st, from, to, token_id) ==
    [st EXCEPT !.token_owner[token_id] = from,
               !.events = Append(@, transfer_event(from, to, token_id))]

\* Variant of mint: the owner is written without a transfer event.
mint_silent(st, from, to, token_id) ==
    [st EXCEPT !.token_owner[token_id] = to]

mint(st, from, to, token_id) ==
    [st EXCEPT !.token_owner[token_id] = to,
               !.events = Append(@, transfer_event(from, to, token_id))]

\* Variant of burn: the owner is reset without a transfer event.
burn_silent(st, token_id) ==
    [st EXCEPT !.token_owner[token_id] = Zero]

burn(st, token_id) ==
    LET burn_wallet == Zero
        owner == st.token_owner[token_id]
    IN  [st EXCEPT !.token_owner[token_id] = burn_wallet,
                   !.events = Append(@, transfer_event(owner, burn_wallet, token_id))]

set_used_hash(st, token_id, value) ==
    [st EXCEPT !.used_hash[token_id] = value]

\* A transaction that ends in an error is reverted: storage as before, no log.
Abort(call) ==
    /\ last' = call
    /\ events' = <<>>
    /\ UNCHANGED <<token_name, token_symbol, next_token_id, token_owner, balance,
                   used_hash>>

\* A transaction that completes writes its storage and its log.
Commit(st, call) ==
    /\ last' = call
    /\ token_owner' = st.token_owner
    /\ used_hash' = st.used_hash
    /\ events' = st.events
    /\ UNCHANGED <<token_name, token_symbol, next_token_id, balance>>

\* The view getUserBalance: the stored value, zero where nothing was stored.
getUserBalance(owner) == balance[owner]

\* ------------------------------------------------------------ endpoints
\* Variant of init: the identifier counter is started at one.
init_starts_counter(caller, name, symbol) ==
    /\ token_name' = name
    /\ token_symbol' = symbol
    /\ next_token_id' = 1
    /\ last' = Call("init", caller, Zero, 0, Garbage, Ok)
    /\ events' = <<>>
    /\ UNCHANGED <<token_owner, balance, used_hash>>

init(caller, name, symbol) ==
    /\ token_name' = name
    /\ token_symbol' = symbol
    /\ last' = Call("init", caller, Zero, 0, Garbage, Ok)
    /\ events' = <<>>
    /\ UNCHANGED <<next_token_id, token_owner, balance, used_hash>>

\* Variant of uneqip: the used flag is not cleared.
uneqip_keeps_flag(caller, token_id) ==
    LET owner == token_owner[token_id]
        call(result) == Call("unequip", caller, Zero, token_id, Garbage, result)
    IN  IF ~(caller = owner)
        THEN Abort(call(ErrUnequipOwner))
        ELSE IF ~(next_token_id > token_id)
        THEN Abort(call(ErrNotMinted))
        ELSE Commit(burn(Storage, token_id), call(Ok))

\* Variant of uneqip: the caller is not compared with the owner.
uneqip_by_anyone(caller, token_id) ==
    LET call(result) == Call("unequip", caller, Zero, token_id, Garbage, result)
    IN  IF ~(next_token_id > token_id)
        THEN Abort(call(ErrNotMinted))
        ELSE Commit(burn(set_used_hash(Storage, token_id, FALSE), token_id),
                    call(Ok))

uneqip(caller, token_id) ==
    LET owner == token_owner[token_id]
        call(result) == Call("unequip", caller, Zero, token_id, Garbage, result)
    IN  IF ~(caller = owner)
        THEN Abort(call(ErrUnequipOwner))
        ELSE IF ~(next_token_id > token_id)
        THEN Abort(call(ErrNotMinted))
        ELSE Commit(burn(set_used_hash(Storage, token_id, FALSE), token_id),
                    call(Ok))

\* Variant of give: the flag is set before the agreement check and the write
\* survives the failed check.
give_unreverted(caller, to, token_id, signature) ==
    LET from == caller
        call(result) == Call("give", caller, to, token_id, signature, result)
        agreement == safe_check_agreement(Storage, from, to, token_id, signature)
    IN  IF ~(caller # to)
        THEN Abort(call(ErrGiveSelf))
        ELSE IF ~(next_token_id > token_id)
        THEN Abort(call(ErrNotMinted))
        ELSE IF agreement # Ok
        THEN Commit(set_used_hash(Storage, token_id, TRUE), call(agreement))
        ELSE Commit(set_used_hash(mint(Storage, from, to, token_id), token_id, TRUE),
                    call(Ok))

\* Variant of give: the used flag is not set.
give_unmarked(caller, to, token_id, signature) ==
    LET from == caller
        call(result) == Call("give", caller, to, token_id, signature, result)
        agreement == safe_check_agreement(Storage, from, to, token_id, signature)
    IN  IF ~(caller # to)
        THEN Abort(call(ErrGiveSelf))
        ELSE IF ~(next_token_id > token_id)
        THEN Abort(call(ErrNotMinted))
        ELSE IF agreement # Ok
        THEN Abort(call(agreement))
        ELSE Commit(mint(Storage, from, to, token_id), call(Ok))

\* Variant of give: the token id is not compared with the counter.
give_unminted(caller, to, token_id, signature) ==
    LET from == caller
        call(result) == Call("give", caller, to, token_id, signature, result)
        agreement == safe_check_agreement(Storage, from, to, token_id, signature)
    IN  IF ~(caller # to)
        THEN Abort(call(ErrGiveSelf))
        ELSE IF agreement # Ok
        THEN Abort(call(agreement))
        ELSE Commit(set_used_hash(mint(Storage, from, to, token_id), token_id, TRUE),
                    call(Ok))

\* Variant of give: the token id is compared with the counter before the
\* caller is compared with the addressee.
give_minted_first(caller, to, token_id, signature) ==
    LET from == caller
        call(result) == Call("give", caller, to, token_id, signature, result)
        agreement == safe_check_agreement(Storage, from, to, token_id, signature)
    IN  IF ~(next_token_id > token_id)
        THEN Abort(call(ErrNotMinted))
        ELSE IF ~(caller # to)
        THEN Abort(call(ErrGiveSelf))
        ELSE IF agreement # Ok
        THEN Abort(call(agreement))
        ELSE Commit(set_used_hash(mint(Storage, from, to, token_id), token_id, TRUE),
                    call(Ok))

give(caller, to, token_id, signature) ==
    LET from == caller
        call(result) == Call("give", caller, to, token_id, signature, result)
        agreement == safe_check_agreement(Storage, from, to, token_id, signature)
    IN  IF ~(caller # to)
        THEN Abort(call(ErrGiveSelf))
        ELSE IF ~(next_token_id > token_id)
        THEN Abort(call(ErrNotMinted))
        ELSE IF agreement # Ok
        THEN Abort(call(agreement))
        ELSE Commit(set_used_hash(mint(Storage, from, to, token_id), token_id, TRUE),
                    call(Ok))

\* Variant of take: the token is also recorded under the caller, as give does.
take_equips(caller, from, token_id, signature) ==
    LET to == caller
        call(result) == Call("take", caller, from, token_id, signature, result)
        agreement == safe_check_agreement(Storage, to, from, token_id, signature)
    IN  IF ~(caller # from)
        THEN Abort(call(ErrTakeSelf))
        ELSE IF ~(next_token_id > token_id)
        THEN Abort(call(ErrNotMinted))
        ELSE IF agreement # Ok
        THEN Abort(call(agreement))
        ELSE Commit(set_used_hash(mint(Storage, from, to, token_id), token_id, TRUE),
                    call(Ok))

\* Variant of take: the agreement is checked with the two roles exchanged.
take_roles_swapped(caller, from, token_id, signature) ==
    LET to == caller
        call(result) == Call("take", caller, from, token_id, signature, result)
        agreement == safe_check_agreement(Storage, from, to, token_id, signature)
    IN  IF ~(caller # from)
        THEN Abort(call(ErrTakeSelf))
        ELSE IF ~(next_token_id > token_id)
        THEN Abort(call(ErrNotMinted))
        ELSE IF agreement # Ok
        THEN Abort(call(agreement))
        ELSE Commit(set_used_hash(Storage, token_id, TRUE), call(Ok))

\* Variant of take: the token id is not compared with the counter.
take_unminted(caller, from, token_id, signature) ==
    LET to == caller
        call(result) == Call("take", caller, from, token_id, signature, result)
        agreement == safe_check_agreement(Storage, to, from, token_id, signature)
    IN  IF ~(caller # from)
        THEN Abort(call(ErrTakeSelf))
        ELSE IF agreement # Ok
        THEN Abort(call(agreement))
        ELSE Commit(set_used_hash(Storage, token_id, TRUE), call(Ok))

take(caller, from, token_id, signature) ==
    LET to == caller
        call(result) == Call("take", caller, from, token_id, signature, result)
        agreement == safe_check_agreement(Storage, to, from, token_id, signature)
    IN  IF ~(caller # from)
        THEN Abort(call(ErrTakeSelf))
        ELSE IF ~(next_token_id > token_id)
        THEN Abort(call(ErrNotMinted))
        ELSE IF agreement # Ok
        THEN Abort(call(agreement))
        ELSE Commit(set_used_hash(Storage, token_id, TRUE), call(Ok))

\* -------------------------------------------------------- specification
Init ==
    /\ token_name \in Names
    /\ token_symbol \in Symbols
    /\ next_token_id \in 0 .. MaxNextId
    /\ token_owner = [i \in TokenIds |-> Zero]
    /\ balance = [a \in Addresses |-> 0]
    /\ used_hash = [i \in TokenIds |-> FALSE]
    /\ events = <<>>
    /\ last = NoCall

DoInit ==
    \E caller \in Users, name \in Names, symbol \in Symbols :
        init(caller, name, symbol)

DoUneqip ==
    \E caller \in Users, token_id \in TokenIds : uneqip(caller, token_id)

DoGive ==
    \E caller \in Users, to \in Addresses, token_id \in TokenIds :
        \E signature \in SignaturesFor(caller, to) :
            give(caller, to, token_id, signature)

DoTake ==
    \E caller \in Users, from \in Addresses, token_id \in TokenIds :
        \E signature \in SignaturesFor(caller, from) :
            take(caller, from, token_id, signature)

Next == DoInit \/ DoUneqip \/ DoGive \/ DoTake

Spec == Init /\ [][Next]_vars

TypeOK ==
    /\ token_name \in Names
    /\ token_symbol \in Symbols
    /\ next_token_id \in 0 .. MaxNextId
    /\ token_owner \in [TokenIds -> Addresses]
    /\ balance \in [Addresses -> Nat]
    /\ used_hash \in [TokenIds -> BOOLEAN]
    /\ last.result \in Errors \cup {Ok}

\* ------------------------------------------------------ claim vocabulary
\* The signature is a consent of `passive` to the transfer (active, passive, id).
ValidConsent(signature, active, passive, token_id) ==
    verify_secp256k1_legacy(as_managed_buffer(passive),
                            get_hash(active, passive, token_id), signature)

Succeeded(call) == call.result = Ok
Failed(call) == call.result \in Errors

\* Nothing but the named token's owner and flag differs between the two states.
OnlyTokenChanges(token_id) ==
    /\ \A i \in TokenIds \ {token_id} :
          token_owner'[i] = token_owner[i] /\ used_hash'[i] = used_hash[i]
    /\ UNCHANGED <<token_name, token_symbol, next_token_id, balance>>

StorageUnchanged ==
    UNCHANGED <<token_name, token_symbol, next_token_id, token_owner, balance,
                used_hash>>

\* ---------------------------------------------------------------- claims
\* C1: give(to, id, sig) by a caller succeeds exactly when id < nextId,
\* caller /= to, the used flag of id is clear and sig is a signature by `to`
\* over the digest of (caller, to, id); a successful give leaves to as the
\* owner of id, the flag set, logs the one event (caller, to, id) and returns id.
C1_GiveStep ==
    LET caller == last'.caller
        to == last'.other
        token_id == last'.token_id
        signature == last'.signature
    IN  last'.op = "give" =>
          /\ Succeeded(last') <=>
                /\ token_id < next_token_id
                /\ caller # to
                /\ used_hash[token_id] = FALSE
                /\ ValidConsent(signature, caller, to, token_id)
          /\ Succeeded(last') =>
                /\ token_owner'[token_id] = to
                /\ used_hash'[token_id] = TRUE
                /\ events' = <<[from |-> caller, to |-> to, token_id |-> token_id]>>
                /\ last'.ret = token_id
                /\ OnlyTokenChanges(token_id)

C1_Give == [][C1_GiveStep]_vars

C1_Witness ==
    /\ last.op = "give" /\ Succeeded(last)
    /\ token_owner[last.token_id] = last.other
    /\ used_hash[last.token_id]
    /\ Len(events) = 1

\* C2: take(from, id, sig) by a caller succeeds exactly when id < nextId,
\* caller /= from, the used flag of id is clear and sig is a signature by
\* `from` over the digest of (caller, from, id); a successful take sets the
\* used flag of id and changes nothing else: no owner changes, no event is logged.
C2_TakeStep ==
    LET caller == last'.caller
        from == last'.other
        token_id == last'.token_id
        signature == last'.signature
    IN  last'.op = "take" =>
          /\ Succeeded(last') <=>
                /\ token_id < next_token_id
                /\ caller # from
                /\ used_hash[token_id] = FALSE
                /\ ValidConsent(signature, caller, from, token_id)
          /\ Succeeded(last') =>
                /\ used_hash' = [used_hash EXCEPT ![token_id] = TRUE]
                /\ token_owner' = token_owner
                /\ events' = <<>>
                /\ UNCHANGED <<token_name, token_symbol, next_token_id, balance>>

C3_UnequipStep ==
    LET caller == last'.caller
        token_id == last'.token_id
        oldOwner == token_owner[token_id]
    IN  last'.op = "unequip" =>
          /\ Succeeded(last') <=>
                (caller = oldOwner /\ token_id < next_token_id)
          /\ Succeeded(last') =>
                /\ token_owner'[token_id] = Zero
                /\ used_hash'[token_id] = FALSE
                /\ events' = <<[from |-> oldOwner, to |-> Zero, token_id |-> token_id]>>
                /\ OnlyTokenChanges(token_id)
          /\ ~Succeeded(last') =>
                IF caller # oldOwner THEN last'.result \in Unauthorized
                ELSE last'.result \in NotMinted

C3_Unequip == [][C3_UnequipStep]_vars

C3_Witness ==
    /\ last.op = "unequip" /\ Succeeded(last)
    /\ token_owner[last.token_id] = Zero
    /\ ~used_hash[last.token_id]
    /\ Len(events) = 1 /\ events[1].from = last.caller /\ events[1].to = Zero

\* C4: in every reachable state the used flag of an id is set exactly when
\* the id has a non-zero owner.
C4_UsedIffOwned ==
    \A i \in TokenIds : used_hash[i] = TRUE <=> token_owner[i] # Zero

\* C5: a successful give or take leaves the receiving side as the owner of
\* the id: the addressee of a give, the caller of a take.
C5_EquipsReceiver ==
    /\ (last.op = "give" /\ Succeeded(last)) =>
          token_owner[last.token_id] = last.other
    /\ (last.op = "take" /\ Succeeded(last)) =>
          token_owner[last.token_id] = last.caller

\* C6: a give, take or unequip that fails leaves the owners, the used flags
\* and the counter as they were and logs no event.
C6_FailedStep ==
    (last'.op \in {"give", "take", "unequip"} /\ Failed(last')) =>
        /\ StorageUnchanged
        /\ events' = <<>>

C6_FailureKeepsState == [][C6_FailedStep]_vars

\* A failed call found a token equipped and left it so.
C6_Witness ==
    /\ last.op \in {"give", "take", "unequip"} /\ Failed(last)
    /\ token_owner[last.token_id] # Zero
    /\ used_hash[last.token_id]
    /\ events = <<>>

\* C7 as claimed: while the used flag of id is set, every give or take on id
\* (caller /= addressee, id < nextId) fails as AgreementAlreadyUsed, whatever
\* the signature.
C7_UsedFlagFirstStep ==
    LET token_id == last'.token_id
    IN  ( /\ last'.op \in {"give", "take"}
          /\ used_hash[token_id]
          /\ last'.caller # last'.other
          /\ token_id < next_token_id ) =>
            last'.result \in AgreementAlreadyUsed

C7_UsedFlagFirst == [][C7_UsedFlagFirstStep]_vars

\* C7 as amended: while the used flag of id is set, every give or take on id
\* (caller /= addressee, id < nextId) fails: as AgreementAlreadyUsed when the
\* signature is a valid consent, as InvalidSignature when it is not.
C7_SignatureFirstStep ==
    LET token_id == last'.token_id
    IN  ( /\ last'.op \in {"give", "take"}
          /\ used_hash[token_id]
          /\ last'.caller # last'.other
          /\ token_id < next_token_id ) =>
            IF ValidConsent(last'.signature, last'.caller, last'.other, token_id)
            THEN last'.result \in AgreementAlreadyUsed
            ELSE last'.result \in InvalidSignature

C7_SignatureFirst == [][C7_SignatureFirstStep]_vars

\* A call with an invalid signature on a used id failed as InvalidSignature.
C7_Witness ==
    /\ last.op \in {"give", "take"}
    /\ used_hash[last.token_id]
    /\ last.token_id < next_token_id
    /\ last.caller # last.other
    /\ last.result \in InvalidSignature

\* C8: the used flag of an id is set only by a successful give or take on
\* it and cleared only by a successful unequip of it; while it is set, every
\* give or take on the id that carries a valid consent fails as
\* AgreementAlreadyUsed and changes nothing; while it is clear (id < nextId),
\* such a call succeeds and sets it, so of two calls with valid consents the
\* first succeeds and the second fails.
C8_ReplayStep ==
    LET token_id == last'.token_id
        consented ==
            /\ last'.op \in {"give", "take"}
            /\ last'.caller # last'.other
            /\ ValidConsent(last'.signature, last'.caller, last'.other, token_id)
    IN  /\ (consented /\ used_hash[token_id]) =>
              /\ last'.result \in AgreementAlreadyUsed
              /\ StorageUnchanged
              /\ events' = <<>>
        /\ (consented /\ ~used_hash[token_id] /\ token_id < next_token_id) =>
              /\ Succeeded(last')
              /\ used_hash'[token_id]
        /\ \A i \in TokenIds :
              /\ (~used_hash[i] /\ used_hash'[i]) =>
                    /\ last'.op \in {"give", "take"}
                    /\ Succeeded(last') /\ last'.token_id = i
              /\ (used_hash[i] /\ ~used_hash'[i]) =>
                    /\ last'.op = "unequip"
                    /\ Succeeded(last') /\ last'.token_id = i

C8_NoReplay == [][C8_ReplayStep]_vars

\* A validly consented give or take was refused on a consumed id.
C8_Witness ==
    /\ last.op \in {"give", "take"}
    /\ ValidConsent(last.signature, last.caller, last.other, last.token_id)
    /\ last.result \in AgreementAlreadyUsed
    /\ used_hash[last.token_id]

\* C9: after a successful unequip(id) by B the id has the zero owner and a
\* clear flag, and every give or take on it that carries the addressee's
\* consent can succeed: in particular give(B, id, sig) by the other party A
\* with B's consent sig, the call that equipped B before, succeeds again and
\* leaves B the owner.
C9_Replay ==
    (last.op = "unequip" /\ Succeeded(last)) =>
        LET token_id == last.token_id
        IN  /\ token_owner[token_id] = Zero
            /\ used_hash[token_id] = FALSE
            /\ \A caller \in Users : \A other \in Users \ {caller} :
                  LET consent == Sign(as_managed_buffer(other),
                                      get_hash(caller, other, token_id))
                  IN  /\ ENABLED ( /\ give(caller, other, token_id, consent)
                                   /\ Succeeded(last')
                                   /\ token_owner'[token_id] = other )
                      /\ ENABLED ( /\ take(caller, other, token_id, consent)
                                   /\ Succeeded(last') )

\* B has released the token that a give had equipped it with.
C9_Witness ==
    /\ last.op = "unequip" /\ Succeeded(last)
    /\ events = <<[from |-> last.caller, to |-> Zero, token_id |-> last.token_id]>>
    /\ used_hash[last.token_id] = FALSE

\* C10: whenever the owner of an id is a non-zero address X, unequip(id)
\* called by X succeeds.
C10_HolderStep ==
    LET token_id == last'.token_id
        X == token_owner[token_id]
    IN  (last'.op = "unequip" /\ X # Zero /\ last'.caller = X) =>
            /\ Succeeded(last')
            /\ token_owner'[token_id] = Zero

C10_HolderCanUnequip == [][C10_HolderStep]_vars

\* A holder has released a token while another id stays consumed.
C10_Witness ==
    /\ last.op = "unequip" /\ Succeeded(last)
    /\ token_owner[last.token_id] = Zero
    /\ \E i \in TokenIds \ {last.token_id} : used_hash[i]

\* C11: a give whose addressee is the caller and a take whose origin is the
\* caller fail as SelfTransfer and change nothing, whatever the signature,
\* whether or not id < nextId and whatever the used flag of id.
C11_SelfStep ==
    (last'.op \in {"give", "take"} /\ last'.caller = last'.other) =>
        /\ last'.result \in SelfTransfer
        /\ last'.result = IF last'.op = "give" THEN ErrGiveSelf ELSE ErrTakeSelf
        /\ StorageUnchanged
        /\ events' = <<>>

C11_SelfTransfer == [][C11_SelfStep]_vars

\* A self-transfer carrying the caller's own valid signature, on an id that
\* is not minted, was refused as SelfTransfer.
C11_Witness ==
    /\ last.op \in {"give", "take"}
    /\ last.caller = last.other
    /\ ValidConsent(last.signature, last.caller, last.other, last.token_id)
    /\ ~(last.token_id < next_token_id)
    /\ last.result \in SelfTransfer

\* C12: a transaction changes the owner of an id exactly when it logs one
\* transfer event for that id, and the `to` field of that event is the new
\* owner (the zero address for a burn); a transaction that changes no owner
\* logs no event.
EventsFor(log, token_id) ==
    {k \in 1 .. Len(log) : log[k].token_id = token_id}

C12_RecordStep ==
    /\ \A i \in TokenIds :
          /\ token_owner'[i] # token_owner[i] <=>
                Cardinality(EventsFor(events', i)) = 1
          /\ Cardinality(EventsFor(events', i)) <= 1
          /\ \A k \in EventsFor(events', i) : events'[k].to = token_owner'[i]
    /\ token_owner' = token_owner => events' = <<>>
    /\ \A k \in 1 .. Len(events') : events'[k].token_id \in TokenIds

C12_EveryChangeRecorded == [][C12_RecordStep]_vars

\* The latest transaction changed an owner and logged that change.
C12_Witness ==
    /\ last.op \in {"give", "unequip"} /\ Succeeded(last)
    /\ Len(events) = 1
    /\ events[1].token_id = last.token_id
    /\ events[1].to = token_owner[last.token_id]
    /\ events[1].from # events[1].to

\* The latest call is a give or take by B naming A that carries B's own
\* signature over the digest of the opposite direction (active A, passive B).
ReverseConsentCall(call) ==
    /\ call.op \in {"give", "take"}
    /\ call.other \in Users
    /\ call.other # call.caller
    /\ call.signature =
          Sign(as_managed_buffer(call.caller),
               get_hash(call.other, call.caller, call.token_id))

\* C13 as claimed: for A /= B and any id, a give or take of id by B naming A
\* that carries B's signature over digest(A, B, id) fails as InvalidSignature.
C13_ReverseInvalidStep ==
    ReverseConsentCall(last') => last'.result \in InvalidSignature

C13_ReverseInvalid == [][C13_ReverseInvalidStep]_vars

\* C13 as amended: the digests of the two directions differ, and for A /= B
\* and any id, a give or take of id by B naming A that carries B's signature
\* over digest(A, B, id) is never accepted: it fails as InvalidSignature when
\* id < nextId and as NotMinted when id is not minted, and changes nothing.
C13_DirectionStep ==
    ReverseConsentCall(last') =>
        /\ get_hash(last'.other, last'.caller, last'.token_id)
              # get_hash(last'.caller, last'.other, last'.token_id)
        /\ IF last'.token_id < next_token_id
           THEN last'.result \in InvalidSignature
           ELSE last'.result \in NotMinted
        /\ StorageUnchanged
        /\ events' = <<>>

C13_DirectionSpecific == [][C13_DirectionStep]_vars

\* A consent to the opposite direction was refused as InvalidSignature on a
\* minted id whose used flag is clear.
C13_Witness ==
    /\ ReverseConsentCall(last)
    /\ last.token_id < next_token_id
    /\ ~used_hash[last.token_id]
    /\ last.result \in InvalidSignature

\* C14: in every reachable state getUserBalance(owner) is the number of ids
\* whose owner is `owner`, for every user.
C14_BalanceCounts ==
    \A owner \in Users :
        getUserBalance(owner) = Cardinality({i \in TokenIds : token_owner[i] = owner})

\* C15: once the owner of an id is a non-zero address X, the owner of the id
\* changes only by a successful unequip of the id called by X, which leaves
\* the zero address; no give or take changes a non-zero owner, and every
\* successful give finds the zero address as the owner.
C15_SoulboundStep ==
    /\ \A i \in TokenIds :
          (token_owner[i] # Zero /\ token_owner'[i] # token_owner[i]) =>
              /\ last'.op = "unequip" /\ Succeeded(last')
              /\ last'.token_id = i
              /\ last'.caller = token_owner[i]
              /\ token_owner'[i] = Zero
    /\ (last'.op = "give" /\ Succeeded(last')) =>
          token_owner[last'.token_id] = Zero

C15_Soulbound == [][C15_SoulboundStep]_vars

\* A validly consented give that would have moved an owned token to another
\* address was refused, and the owner kept the token.
C15_Witness ==
    /\ last.op = "give" /\ Failed(last)
    /\ ValidConsent(last.signature, last.caller, last.other, last.token_id)
    /\ token_owner[last.token_id] # Zero
    /\ token_owner[last.token_id] # last.other

\* C16: every id >= nextId has the zero owner and a clear used flag, before
\* and after every transaction, and every give or take on such an id with
\* caller /= addressee fails as NotMinted, whatever the signature.
Unissued(token_id) == ~(token_id < next_token_id)

C16_UnissuedStep ==
    /\ \A i \in TokenIds :
          Unissued(i) =>
              /\ token_owner[i] = Zero /\ used_hash[i] = FALSE
              /\ token_owner'[i] = Zero /\ used_hash'[i] = FALSE
    /\ ( /\ last'.op \in {"give", "take"}
         /\ last'.caller # last'.other
         /\ Unissued(last'.token_id) ) =>
            /\ last'.result \in NotMinted
            /\ StorageUnchanged
            /\ events' = <<>>

C16_UnissuedUntouched == [][C16_UnissuedStep]_vars

\* A validly consented give or take on an id that is not minted was refused
\* as NotMinted.
C16_Witness ==
    /\ last.op \in {"give", "take"}
    /\ last.caller # last.other
    /\ Unissued(last.token_id)
    /\ ValidConsent(last.signature, last.caller, last.other, last.token_id)
    /\ last.result \in NotMinted
    /\ token_owner[last.token_id] = Zero /\ ~used_hash[last.token_id]

\* C17: no transaction (init, give, take, unequip) changes nextId; and while
\* nextId is 0, every give, take and unequip fails, every id has the zero
\* owner and a clear used flag, and no transaction changes that.
C17_CounterStep ==
    /\ next_token_id' = next_token_id
    /\ next_token_id = 0 =>
          /\ last'.op \in {"give", "take", "unequip"} => Failed(last')
          /\ \A i \in TokenIds : token_owner[i] = Zero /\ used_hash[i] = FALSE
          /\ token_owner' = token_owner
          /\ used_hash' = used_hash
          /\ events' = <<>>

C17_CounterFixed == [][C17_CounterStep]_vars

\* With the counter never set, a validly consented give between two users
\* has failed.
C17_Witness ==
    /\ next_token_id = 0
    /\ last.op = "give"
    /\ last.caller # last.other
    /\ ValidConsent(last.signature, last.caller, last.other, last.token_id)
    /\ Failed(last)

\* C18: in every reachable state, for every caller A, counterpart B, id and
\* signature, give(B, id, sig) called by A can succeed exactly when
\* take(B, id, sig) called by A can succeed.
GiveAccepted(caller, other, token_id, signature) ==
    ENABLED (give(caller, other, token_id, signature) /\ Succeeded(last'))

TakeAccepted(caller, other, token_id, signature) ==
    ENABLED (take(caller, other, token_id, signature) /\ Succeeded(last'))

C18_SameConsents ==
    \A A \in Users : \A B \in Addresses : \A i \in TokenIds :
        \A signature \in SignaturesFor(A, B) :
            GiveAccepted(A, B, i, signature) <=> TakeAccepted(A, B, i, signature)

\* A take by A with B's consent has succeeded on one id, and on another id
\* both the give and the take by A with B's consent can succeed.
C18_Witness ==
    /\ last.op = "take" /\ Succeeded(last)
    /\ \E i \in TokenIds \ {last.token_id} :
          LET consent == Sign(as_managed_buffer(last.other),
                              get_hash(last.caller, last.other, i))
          IN  /\ GiveAccepted(last.caller, last.other, i, consent)
              /\ TakeAccepted(last.caller, last.other, i, consent)

\* C19: a successful take leaves its id with the zero owner and the used
\* flag set; an id in that state stays in it through every transaction, and
\* every give, take and unequip on it fails.
Locked(token_id) ==
    token_owner[token_id] = Zero /\ used_hash[token_id] = TRUE

C19_LockStep ==
    /\ (last'.op = "take" /\ Succeeded(last')) =>
          /\ token_owner'[last'.token_id] = Zero
          /\ used_hash'[last'.token_id] = TRUE
    /\ \A i \in TokenIds :
          Locked(i) =>
              /\ token_owner'[i] = Zero
              /\ used_hash'[i] = TRUE
              /\ (last'.op \in {"give", "take", "unequip"} /\ last'.token_id = i) =>
                    Failed(last')

====
